---------------------------- MODULE Spec2Model ----------------------------
(***************************************************************************)
(* Futures Trading & Hedging Lab (src/app.py).                             *)
(*                                                                         *)
(* The program is a Streamlit script: every interaction (a module chosen   *)
(* in the sidebar, a widget changed, a rerun) executes the script from top *)
(* to bottom with the current widget values and emits a fresh list of      *)
(* elements (headers, metrics, charts, tables).  The state is the sidebar  *)
(* selection `topic`, the widget values `w` of the module on screen and    *)
(* the result `out` of the latest execution: its status, the elements it   *)
(* emitted and the values of the script's variables.  `snap` is history,   *)
(* no part of the program: one earlier run kept for comparison.            *)
(*                                                                         *)
(* Numbers.  The script computes with Python numbers.  They are modelled   *)
(* as exact rationals [n |-> numerator, d |-> denominator > 0] in lowest   *)
(* terms: the model states the real-number value of every formula, and     *)
(* IEEE-754 rounding of the last bit is outside it.  Division by zero is   *)
(* modelled as what Python does: ZeroDivisionError, which ends the run.    *)
(***************************************************************************)
EXTENDS Integers, Sequences, FiniteSets, TLC

VARIABLES topic, w, out, snap

vars == <<topic, w, out, snap>>

-----------------------------------------------------------------------------
(* Exact rational arithmetic: Python's + - * / on the modelled numbers.    *)

RECURSIVE Gcd(_, _)
Gcd(a, b) == IF b = 0 THEN a ELSE Gcd(b, a % b)

IAbs(i) == IF i < 0 THEN -i ELSE i

\* The rational n/d (d # 0) in lowest terms with a positive denominator.
Rat(n, d) ==
    LET g == Gcd(IAbs(n), IAbs(d))
        s == IF d < 0 THEN -1 ELSE 1
    IN  [n |-> (s * n) \div g, d |-> (s * d) \div g]

R(i) == [n |-> i, d |-> 1]

RNeg(x) == [n |-> -x.n, d |-> x.d]

RAdd(x, y) ==
    LET g == Gcd(x.d, y.d)
    IN  Rat(x.n * (y.d \div g) + y.n * (x.d \div g), (x.d \div g) * y.d)

RSub(x, y) == RAdd(x, RNeg(y))

RMul(x, y) ==
    LET g1 == Gcd(IAbs(x.n), y.d)
        g2 == Gcd(IAbs(y.n), x.d)
    IN  Rat((x.n \div g1) * (y.n \div g2), (x.d \div g2) * (y.d \div g1))

\* x / y for y # 0 (the callers raise ZeroDivisionError before using it).
RDiv(x, y) == RMul(x, Rat(y.d, y.n))

RAbs(x) == [n |-> IAbs(x.n), d |-> x.d]

RLt(x, y) == x.n * y.d < y.n * x.d

RLe(x, y) == x.n * y.d <= y.n * x.d

\* Python's round(x, 2): the nearest multiple of 1/100, ties to even.
Round2(x) ==
    LET t   == RMul(x, R(100))
        fl  == t.n \div t.d
        rem == t.n - fl * t.d
        up  == IF 2 * rem > t.d THEN 1
               ELSE IF 2 * rem < t.d THEN 0
               ELSE fl % 2
    IN  Rat(fl + up, 100)

\* Python's round(x, 1).
Round1(x) ==
    LET t   == RMul(x, R(10))
        fl  == t.n \div t.d
        rem == t.n - fl * t.d
        up  == IF 2 * rem > t.d THEN 1
               ELSE IF 2 * rem < t.d THEN 0
               ELSE fl % 2
    IN  Rat(fl + up, 10)

\* np.linspace(lo, hi, num): num evenly spaced points, both ends included.
Linspace(lo, hi, num) ==
    IF num = 1 THEN <<lo>>
    ELSE [i \in 1..num |->
            RAdd(lo, RMul(R(i - 1), RDiv(RSub(hi, lo), R(num - 1))))]

\* Elementwise array arithmetic of numpy.
Scale(k, xs) == [i \in 1..Len(xs) |-> RMul(k, xs[i])]

Shift(xs, k) == [i \in 1..Len(xs) |-> RAdd(xs[i], k)]

VAdd(xs, ys) == [i \in 1..Len(xs) |-> RAdd(xs[i], ys[i])]


-----------------------------------------------------------------------------
(* The elements a run emits, in order.  data holds the columns of numbers  *)
(* the element shows (one column of one number for a metric).              *)

El(kind, label, data) == [kind |-> kind, label |-> label, data |-> data]

Header(label) == El("header", label, <<>>)

Metric(label, value) == El("metric", label, <<<<value>>>>)

Chart(label, cols) == El("chart", label, cols)

Table(label, cols) == El("table", label, cols)

\* A run that reached the end of the script's branch.
Done(ui, env) == [status |-> "ok", ui |-> ui, env |-> env]

\* A run ended by an uncaught exception: Streamlit keeps the elements
\* emitted so far and shows the exception.
Raised(exc, ui) == [status |-> exc, ui |-> ui, env |-> [none |-> TRUE]]

Kinds(o) == {o.ui[i].kind : i \in 1..Len(o.ui)}

-----------------------------------------------------------------------------
(* Sidebar and widgets.                                                    *)

T1  == "1. What is Futures?"
T3  == "3. MTM & Margin Calls"
T4  == "4. Trading P&L"
T5  == "5. Hedging Strategy Builder"
T6  == "6. Optimal Hedge Ratio"
T7  == "7. Basis & Convergence"
T8  == "8. Basis Risk"
T9  == "9. Rolling Futures"
T10 == "10. Matching System"
T11 == "11. Real-World Cases"
T12 == "12. Advanced Strategies"
T13 == "13. Quiz & Certificate"

\* The modules of the sidebar that are modelled ("2. Futures Pricing" needs
\* exp and a fractional power).
Topics == {T1, T3, T4, T5, T6, T7, T8, T9, T10, T11, T12, T13}

Positions == {"Long", "Short"}

HedgeTypes == {"Optimal Hedge", "Under Hedge", "Over Hedge"}

MarketTypes == {"Contango (F > S)", "Backwardation (F < S)"}

Cases == {"Equity Portfolio Hedge", "Airline Fuel Hedge",
          "Exporter Currency Hedge", "Commodity Producer Hedge",
          "Calendar Spread Trading Desk", "Arbitrage Desk"}

Strats == {"Directional Trade", "Calendar Spread", "Cross Hedging",
           "Rolling Hedge Over Time", "Strategy Comparison"}

\* size = 50: the contract multiplier of every panel.
Size == 50

\* The values the model lets the user enter.  st.number_input has no
\* minimum, so zero and negative amounts can be entered; a slider offers
\* its range only.
EntryPrices == {22000, 21000}

ContractCounts == {1, 5, 20}

InitMargins == {150000, 100000}

MaintMargins == {100000, 50000}

PortfolioValues == {0, 1000000, 5000000}

Betas == {Rat(1, 2), R(1), Rat(3, 2)}

FuturesPrices == {22000, 22150, 0, -22000}

SpotPrices == {22000, 22100}

DaysToExpiry == {5, 30}

Correlations == {R(0), Rat(1, 4), Rat(7, 10), Rat(4, 5), R(1)}

NearPrices == {22000, 21900}

FarPrices == {22150, 22200}

OrderCounts == {0, 50, 60, 100}

HedgePcts == {0, 70, 100}

Exposures == {1000000, 0, -1000000}

InterestPcts == {0, 8}

FuelCosts == {10000000, 5000000}

OutputQtys == {1000, 500}

CommodityPrices == {5000, 4000}

PeriodCounts == {1, 2, 6}

\* The quiz: the radio questions with their options (the first option is
\* the default) and the number questions with the answers tried.  A
\* st.number_input without arguments holds a float, 0.0 at first.
RadioQuestions == {"q1", "q2", "q6", "q7", "q8", "q9"}

NumberQuestions == {"q3", "q4", "q5", "q10"}

RadioOptions(q) ==
    CASE q = "q1" -> {"Long", "Short"}
      [] q = "q2" -> {"Zero", "Large"}
      [] q = "q6" -> {"Credit risk", "Return"}
      [] q = "q7" -> {"Contango", "Backwardation"}
      [] q = "q8" -> {"High", "Low"}
      [] q = "q9" -> {"Close & reopen", "Hold"}

NumberAnswers(q) ==
    CASE q = "q3"  -> {R(0), Rat(221, 2), R(111)}
      [] q = "q4"  -> {R(0), R(500)}
      [] q = "q5"  -> {R(0), R(1), Rat(3, 2)}
      [] q = "q10" -> {R(0), R(200)}

\* What may be typed into the two text inputs (empty at first).
StudentNames == {"", " ", "Asha Rao"}

StudentIds == {"", "S01"}

\* The widget values of a module when it is first shown: the defaults the
\* script passes to each widget.  Widgets of the same name in two panels
\* have their own defaults (far: 22150 in module 9, 22200 in the spread
\* panels; corr: 0.8 in module 8, 0.7 in Cross Hedging; spot and futures:
\* 1000 and 1050 at the Arbitrage Desk).  submit is the value st.button
\* returns in the coming run: TRUE only in the run its click triggers.
Defaults(t, sub) ==
    [entry |-> 22000, contracts |-> 5, position |-> "Long",
     init_margin |-> 150000, maint_margin |-> 100000,
     V |-> 5000000, beta |-> R(1), F |-> 22000,
     hedge_type |-> "Optimal Hedge",
     spot |-> IF sub = "Arbitrage Desk" THEN 1000 ELSE 22000,
     futures |-> IF sub = "Arbitrage Desk" THEN 1050 ELSE 22150,
     market_type |-> "Contango (F > S)", days |-> 30,
     corr |-> IF t = T8 THEN Rat(4, 5) ELSE Rat(7, 10),
     near |-> 22000, far |-> IF t = T9 THEN 22150 ELSE 22200,
     buyers |-> 60, sellers |-> 50,
     sub |-> sub,
     fuel_cost |-> 10000000, hedge_pct |-> 70,
     exposure |-> 1000000, output |-> 1000, price |-> 5000,
     r_pct |-> 8, periods |-> 6,
     q1 |-> "Long", q2 |-> "Zero", q3 |-> R(0), q4 |-> R(0), q5 |-> R(0),
     q6 |-> "Credit risk", q7 |-> "Contango", q8 |-> "High",
     q9 |-> "Close & reopen", q10 |-> R(0),
     student_name |-> "", student_id |-> "",
     submit |-> FALSE]

\* The first option of a selectbox is its default.
FirstSub(t) ==
    IF t = T11 THEN "Equity Portfolio Hedge"
    ELSE IF t = T12 THEN "Directional Trade"
    ELSE "none"

-----------------------------------------------------------------------------
(* 1. What is Futures?                                                     *)

FuturesBasics(wv) ==
    LET prices == Linspace(R(wv.entry - 2000), R(wv.entry + 2000), 8)
        pnl    == Shift(prices, R(-wv.entry))
    IN  Done(<<Header("What is a Futures Contract?"),
               Chart("payoff", <<prices, pnl>>),
               Table("P&L", <<prices, pnl>>)>>,
             [prices |-> prices, pnl |-> pnl])

-----------------------------------------------------------------------------
(* 3. MTM & Margin Calls                                                   *)

\* prices = np.linspace(entry-2000, entry+2000, 8)
PriceGrid(entry) == Linspace(R(entry - 2000), R(entry + 2000), 8)

\* The P&L of one row: (p-entry)*contracts*size for Long, (entry-p)*... else.
MtmPnL(position, p, entry, contracts, size) ==
    IF position = "Long"
    THEN RMul(RMul(RSub(p, R(entry)), R(contracts)), R(size))
    ELSE RMul(RMul(RSub(R(entry), p), R(contracts)), R(size))

\* bal = init_margin + pnl
MarginBalance(init_margin, pnl) == RAdd(R(init_margin), pnl)

\* A margin call already when the balance equals the maintenance margin.
MarginStatusAtOrBelow(bal, maint_margin) ==
    IF RLe(bal, R(maint_margin)) THEN "MARGIN CALL" ELSE "OK"

\* The row's status.
MarginStatus(bal, maint_margin) ==
    IF RLt(bal, R(maint_margin)) THEN "MARGIN CALL" ELSE "OK"

MtmMarginCalls(wv) ==
    LET prices   == PriceGrid(wv.entry)
        pnls     == [i \in 1..Len(prices) |->
                        MtmPnL(wv.position, prices[i], wv.entry,
                               wv.contracts, Size)]
        balances == [i \in 1..Len(prices) |->
                        MarginBalance(wv.init_margin, pnls[i])]
        status   == [i \in 1..Len(prices) |->
                        MarginStatus(balances[i], wv.maint_margin)]
    IN  Done(<<Header("MTM & Margin Calls"),
               Chart("Margin balance", <<prices, balances>>),
               Table("MTM", <<prices, balances, status>>)>>,
             [prices |-> prices, pnl |-> pnls, balances |-> balances,
              status |-> status])

-----------------------------------------------------------------------------
(* 4. Trading P&L                                                          *)

\* long = (prices-entry)*contracts*size
LongPnL(prices, entry, contracts, size) ==
    [i \in 1..Len(prices) |->
        RMul(RMul(RSub(prices[i], R(entry)), R(contracts)), R(size))]

\* A short leg of one contract whatever the count.
ShortPnLOneLot(prices, entry, contracts, size) ==
    [i \in 1..Len(prices) |-> RMul(RSub(R(entry), prices[i]), R(size))]

\* short = (entry-prices)*contracts*size
ShortPnL(prices, entry, contracts, size) ==
    [i \in 1..Len(prices) |->
        RMul(RMul(RSub(R(entry), prices[i]), R(contracts)), R(size))]

TradingPnL(wv) ==
    LET prices == PriceGrid(wv.entry)
        long   == LongPnL(prices, wv.entry, wv.contracts, Size)
        short  == ShortPnL(prices, wv.entry, wv.contracts, Size)
    IN  Done(<<Header("Trading P&L"),
               Chart("Long/Short", <<prices, long, short>>),
               Table("Trading P&L", <<prices, long, short>>)>>,
             [prices |-> prices, long |-> long, short |-> short])

-----------------------------------------------------------------------------
(* 5. Hedging Strategy Builder                                             *)

\* A hedge sized without the portfolio's beta.
OptimalContractsNoBeta(beta, V, F, size) == RDiv(R(V), R(F * size))

\* optimal_contracts = (beta * V) / (F * size), for F * size # 0.
OptimalContracts(beta, V, F, size) == RDiv(RMul(beta, R(V)), R(F * size))

\* Under and over hedge exchanged.
HedgeContractsSwapped(hedge_type, optimal_contracts) ==
    IF hedge_type = "Optimal Hedge" THEN optimal_contracts
    ELSE IF hedge_type = "Under Hedge" THEN RMul(optimal_contracts, Rat(3, 2))
    ELSE RMul(optimal_contracts, Rat(1, 2))

\* An over hedge of twice the optimal count.
HedgeContractsDouble(hedge_type, optimal_contracts) ==
    IF hedge_type = "Optimal Hedge" THEN optimal_contracts
    ELSE IF hedge_type = "Under Hedge" THEN RMul(optimal_contracts, Rat(1, 2))
    ELSE RMul(optimal_contracts, R(2))

\* The contracts used for the chosen hedge type.
HedgeContracts(hedge_type, optimal_contracts) ==
    IF hedge_type = "Optimal Hedge" THEN optimal_contracts
    ELSE IF hedge_type = "Under Hedge" THEN RMul(optimal_contracts, Rat(1, 2))
    ELSE RMul(optimal_contracts, Rat(3, 2))

\* moves = np.linspace(-0.1, 0.1, 20)
HedgeMoves == Linspace(Rat(-1, 10), Rat(1, 10), 20)

\* The portfolio's value after the move instead of its change.
PortfolioValueAfter(V, beta, moves) ==
    Scale(RMul(R(V), beta), Shift(moves, R(1)))

\* portfolio = V * beta * moves
PortfolioPnL(V, beta, moves) == Scale(RMul(R(V), beta), moves)

\* A futures leg that is long instead of short.
FuturesPnLLong(contracts, size, F, moves) ==
    Scale(RMul(RMul(contracts, R(size)), R(F)), moves)

\* futures = -contracts * size * F * moves
FuturesPnL(contracts, size, F, moves) ==
    Scale(RMul(RMul(RNeg(contracts), R(size)), R(F)), moves)

\* The futures leg subtracted instead of added.
NetPnLMinus(portfolio, futures) ==
    [i \in 1..Len(portfolio) |-> RSub(portfolio[i], futures[i])]

\* net = portfolio + futures
NetPnL(portfolio, futures) == VAdd(portfolio, futures)

HedgingBuilder(wv) ==
    LET head == <<Header("Hedging Strategy Builder (Realistic)")>>
    IN  IF wv.F * Size = 0 THEN Raised("ZeroDivisionError", head)
        ELSE
        LET optimal_contracts == OptimalContracts(wv.beta, wv.V, wv.F, Size)
            contracts == HedgeContracts(wv.hedge_type, optimal_contracts)
            moves     == HedgeMoves
            portfolio == PortfolioPnL(wv.V, wv.beta, moves)
            futures   == FuturesPnL(contracts, Size, wv.F, moves)
            net       == NetPnL(portfolio, futures)
            pct       == Scale(R(100), moves)
        IN  Done(head \o
                 <<Metric("Optimal contracts", Round2(optimal_contracts)),
                   El("write", "Using contracts", <<<<Round2(contracts)>>>>),
                   Chart("Unhedged/Hedged", <<pct, portfolio, net>>),
                   Table("payoff", <<pct, portfolio, futures, net>>),
                   El("info", "hedge types", <<>>)>>,
                 [optimal_contracts |-> optimal_contracts,
                  contracts |-> contracts, moves |-> moves,
                  portfolio |-> portfolio, futures |-> futures, net |-> net])

-----------------------------------------------------------------------------
(* 6. Optimal Hedge Ratio                                                  *)

OptimalHedgeRatio(wv) ==
    LET head == <<Header("Optimal Hedge Ratio")>>
    IN  IF wv.F * 50 = 0 THEN Raised("ZeroDivisionError", head)
        ELSE LET N == OptimalContracts(wv.beta, wv.V, wv.F, 50)
             IN  Done(head \o <<Metric("Contracts", Round2(N))>>, [N |-> N])

-----------------------------------------------------------------------------
(* 7. Basis & Convergence                                                  *)

\* np.arange(days)
Arange(num) == [i \in 1..num |-> R(i - 1)]

BasisConvergence(wv) ==
    LET basis      == wv.spot - wv.futures
        time       == Arange(wv.days)
        basis_path == IF wv.market_type = "Contango (F > S)"
                      THEN Linspace(R(basis), R(0), wv.days)
                      ELSE Linspace(R(basis), R(0), wv.days)
        head == <<Header("Basis & Convergence at Expiry"),
                  Metric("Current Basis (S - F)", R(basis)),
                  Chart("Basis Converges to Zero at Expiry",
                        <<time, basis_path>>)>>
    IN  IF wv.futures * Size = 0 THEN Raised("ZeroDivisionError", head)
        ELSE
        LET contracts   == OptimalContracts(wv.beta, wv.V, wv.futures, Size)
            moves       == Linspace(Rat(-5, 100), Rat(5, 100), 10)
            portfolio   == PortfolioPnL(wv.V, wv.beta, moves)
            futures_pnl == FuturesPnL(contracts, Size, wv.futures, moves)
            net         == NetPnL(portfolio, futures_pnl)
            pct         == Scale(R(100), moves)
        IN  Done(head \o
                 <<Chart("Effect of Convergence on Hedge",
                         <<pct, portfolio, net>>),
                   Table("hedge", <<pct, portfolio, net>>),
                   El("info", "teaching points", <<>>)>>,
                 [basis |-> R(basis), basis_path |-> basis_path,
                  contracts |-> contracts, moves |-> moves,
                  portfolio |-> portfolio, futures |-> futures_pnl,
                  net |-> net])

-----------------------------------------------------------------------------
(* 8. Basis Risk                                                           *)

\* The unhedged share (1 - corr), as Cross Hedging uses it, in percent.
EffectivenessResidual(corr) == RMul(RSub(R(1), corr), R(100))

\* st.metric("Effectiveness %", corr*100)
Effectiveness(corr) == RMul(corr, R(100))

BasisRisk(wv) ==
    Done(<<Header("Basis Risk"),
           Metric("Effectiveness %", Effectiveness(wv.corr))>>,
         [effectiveness |-> Effectiveness(wv.corr)])

-----------------------------------------------------------------------------
(* 9. Rolling Futures and 10. Matching System                              *)

RollingFutures(wv) ==
    Done(<<Header("Rolling Hedge"), Metric("Roll cost", R(wv.far - wv.near))>>,
         [roll_cost |-> R(wv.far - wv.near)])

IMin(a, b) == IF a <= b THEN a ELSE b

MatchingSystem(wv) ==
    Done(<<Header("Matching Engine"),
           Metric("Trades executed", R(IMin(wv.buyers, wv.sellers)))>>,
         [trades |-> R(IMin(wv.buyers, wv.sellers))])

-----------------------------------------------------------------------------
(* 11. Real-World Cases                                                    *)

EquityPortfolioHedge(wv) ==
    LET head == <<Header("Real-World Hedging & Trading Cases")>>
    IN  IF wv.F * Size = 0 THEN Raised("ZeroDivisionError", head)
        ELSE
        LET N         == RDiv(R(wv.V), R(wv.F * Size))
            moves     == Linspace(Rat(-1, 10), Rat(1, 10), 8)
            portfolio == Scale(R(wv.V), moves)
            futures   == FuturesPnL(N, 50, wv.F, moves)
            net       == NetPnL(portfolio, futures)
            pct       == Scale(R(100), moves)
        IN  Done(head \o
                 <<Metric("Contracts to short", Round1(N)),
                   Chart("Unhedged/Hedged", <<pct, portfolio, net>>),
                   Table("hedge", <<pct, portfolio, net>>)>>,
                 [N |-> N, moves |-> moves, portfolio |-> portfolio,
                  futures |-> futures, net |-> net])

AirlineFuelHedge(wv) ==
    LET hedge_ratio == Rat(wv.hedge_pct, 100)
        moves    == Linspace(Rat(-2, 10), Rat(2, 10), 8)
        unhedged == Scale(R(wv.fuel_cost), moves)
        hedged   == Scale(RSub(R(1), hedge_ratio), unhedged)
        pct      == Scale(R(100), moves)
    IN  Done(<<Header("Real-World Hedging & Trading Cases"),
               Chart("Unhedged/Hedged", <<pct, unhedged, hedged>>),
               Table("hedge", <<pct, unhedged, hedged>>)>>,
             [moves |-> moves, unhedged |-> unhedged, hedged |-> hedged])

ExporterCurrencyHedge(wv) ==
    LET moves    == Linspace(R(-5), R(5), 8)
        unhedged == Scale(R(wv.exposure), moves)
        hedged   == [i \in 1..Len(unhedged) |-> R(0)]
    IN  Done(<<Header("Real-World Hedging & Trading Cases"),
               Chart("Unhedged/Hedged", <<moves, unhedged, hedged>>),
               Table("hedge", <<moves, unhedged, hedged>>)>>,
             [moves |-> moves, unhedged |-> unhedged, hedged |-> hedged])

CommodityProducerHedge(wv) ==
    LET moves   == Linspace(Rat(-2, 10), Rat(2, 10), 8)
        revenue == Scale(R(wv.output * wv.price), Shift(moves, R(1)))
        pct     == Scale(R(100), moves)
    IN  Done(<<Header("Real-World Hedging & Trading Cases"),
               Chart("Revenue", <<pct, revenue>>),
               Table("revenue", <<pct, revenue>>)>>,
             [moves |-> moves, revenue |-> revenue])

\* pnl = (far-near) - (prices-near) on np.linspace(near-1000, near+1000, 8)
SpreadPayoff(near, far) ==
    LET prices == Linspace(R(near - 1000), R(near + 1000), 8)
    IN  <<prices,
          [i \in 1..Len(prices) |->
              RSub(R(far - near), RSub(prices[i], R(near)))]>>

CalendarSpreadDesk(wv) ==
    LET xy == SpreadPayoff(wv.near, wv.far)
    IN  Done(<<Header("Real-World Hedging & Trading Cases"),
               Metric("Spread", R(wv.far - wv.near)),
               Chart("spread", xy), Table("Spread P&L", xy)>>,
             [prices |-> xy[1], pnl |-> xy[2]])

ArbitrageDesk(wv) ==
    LET r      == Rat(wv.r_pct, 100)
        fair   == RMul(R(wv.spot), RAdd(R(1), r))
        prices == Linspace(R(wv.spot - 200), R(wv.spot + 200), 8)
        pnl    == [i \in 1..Len(prices) |-> RSub(R(wv.futures), prices[i])]
    IN  Done(<<Header("Real-World Hedging & Trading Cases"),
               Metric("Fair value", Round2(fair)),
               Chart("arbitrage", <<prices, pnl>>),
               Table("P&L", <<prices, pnl>>)>>,
             [fair |-> fair, prices |-> prices, pnl |-> pnl])

RealWorldCases(wv) ==
    CASE wv.sub = "Equity Portfolio Hedge"       -> EquityPortfolioHedge(wv)
      [] wv.sub = "Airline Fuel Hedge"           -> AirlineFuelHedge(wv)
      [] wv.sub = "Exporter Currency Hedge"      -> ExporterCurrencyHedge(wv)
      [] wv.sub = "Commodity Producer Hedge"     -> CommodityProducerHedge(wv)
      [] wv.sub = "Calendar Spread Trading Desk" -> CalendarSpreadDesk(wv)
      [] wv.sub = "Arbitrage Desk"               -> ArbitrageDesk(wv)

-----------------------------------------------------------------------------
(* 12. Advanced Strategies                                                 *)

DirectionalTrade(wv) ==
    LET prices == Linspace(R(wv.entry - 2000), R(wv.entry + 2000), 8)
        pnl    == Shift(prices, R(-wv.entry))
    IN  Done(<<Header("Advanced Strategies Lab"),
               Chart("payoff", <<prices, pnl>>),
               Table("P&L", <<prices, pnl>>)>>,
             [prices |-> prices, pnl |-> pnl])

CalendarSpread(wv) ==
    LET xy == SpreadPayoff(wv.near, wv.far)
    IN  Done(<<Header("Advanced Strategies Lab"),
               Chart("spread", xy), Table("P&L", xy)>>,
             [prices |-> xy[1], pnl |-> xy[2]])

CrossHedging(wv) ==
    LET moves    == Linspace(Rat(-1, 10), Rat(1, 10), 8)
        unhedged == Scale(R(wv.exposure), moves)
        hedged   == Scale(RSub(R(1), wv.corr), unhedged)
        pct      == Scale(R(100), moves)
    IN  Done(<<Header("Advanced Strategies Lab"),
               Chart("Unhedged/Hedged", <<pct, unhedged, hedged>>),
               Table("hedge", <<pct, unhedged, hedged>>)>>,
             [moves |-> moves, unhedged |-> unhedged, hedged |-> hedged])

\* np.cumsum
RECURSIVE CumSum(_)
CumSum(xs) ==
    IF Len(xs) <= 1 THEN xs
    ELSE LET front == CumSum(SubSeq(xs, 1, Len(xs) - 1))
         IN  Append(front, RAdd(front[Len(front)], xs[Len(xs)]))

\* np.random.normal(0, scale, periods) with the standard-normal draws z of
\* this call: scale * z, and ValueError for a negative scale.  The generator
\* is never seeded, so z is any sequence of draws.
RollingHedgeOverTime(wv, z) ==
    LET head  == <<Header("Advanced Strategies Lab")>>
        scale == RMul(R(wv.exposure), Rat(2, 100))
    IN  IF RLt(scale, R(0)) THEN Raised("ValueError", head)
        ELSE
        LET pnl        == [i \in 1..wv.periods |-> RMul(scale, R(z[i]))]
            cumulative == CumSum(pnl)
            period     == Arange(wv.periods)
        IN  Done(head \o
                 <<Chart("Cumulative Hedge P&L", <<period, cumulative>>),
                   Table("rolling", <<period, pnl, cumulative>>)>>,
                 [pnl |-> pnl, cumulative |-> cumulative])

StrategyComparison(wv) ==
    LET prices      == Linspace(R(wv.entry - 2000), R(wv.entry + 2000), 8)
        directional == Shift(prices, R(-wv.entry))
        calendar    == [i \in 1..Len(prices) |->
                           RSub(R(wv.entry + 200),
                                RSub(prices[i], R(wv.entry)))]
    IN  Done(<<Header("Advanced Strategies Lab"),
               Chart("compare", <<prices, directional, calendar>>),
               Table("compare", <<prices, directional, calendar>>)>>,
             [prices |-> prices, directional |-> directional,
              calendar |-> calendar])

AdvancedStrategies(wv, z) ==
    CASE wv.sub = "Directional Trade"       -> DirectionalTrade(wv)
      [] wv.sub = "Calendar Spread"         -> CalendarSpread(wv)
      [] wv.sub = "Cross Hedging"           -> CrossHedging(wv)
      [] wv.sub = "Rolling Hedge Over Time" -> RollingHedgeOverTime(wv, z)
      [] wv.sub = "Strategy Comparison"     -> StrategyComparison(wv)

-----------------------------------------------------------------------------
(* 13. Quiz & Certificate                                                  *)

\* score += 1 when the condition holds.
Mark(c) == IF c THEN 1 ELSE 0

\* abs(q - key) < tol
Near(q, key, tol) == RLt(RAbs(RSub(q, key)), tol)

\* The ten tests after "Submit Quiz", in the order of the script.
QuizScore(wv) ==
      Mark(wv.q1 = "Short")
    + Mark(wv.q2 = "Zero")
    + Mark(Near(wv.q3, R(110), R(1)))
    + Mark(Near(wv.q4, R(500), R(1)))
    + Mark(Near(wv.q5, R(1), Rat(1, 2)))
    + Mark(wv.q6 = "Credit risk")
    + Mark(wv.q7 = "Contango")
    + Mark(wv.q8 = "High")
    + Mark(wv.q9 = "Close & reopen")
    + Mark(Near(wv.q10, R(200), R(1)))

\* The score from which the certificate is built.
PassMark == 5

\* A certificate whatever the student ID.
CertifiedWithoutId(score, student_name, student_id) ==
    score >= PassMark /\ student_name # ""

\* if score >= 5 and student_name and student_id: a string is true unless
\* it is empty.
Certified(score, student_name, student_id) ==
    score >= PassMark /\ student_name # "" /\ student_id # ""

\* The ten answers in the order of the Excel sheet.
Answers(wv) ==
    <<wv.q1, wv.q2, wv.q3, wv.q4, wv.q5, wv.q6, wv.q7, wv.q8, wv.q9, wv.q10>>

Success(score) == El("success", "Score", <<<<score>>>>)

\* st.download_button: the label and what the file holds.
Download(label, data) == El("download", label, data)

\* The panel: the form is rendered in every run; the score, the Excel
\* download and the certificate only in the run the button triggered.
Quiz(wv) ==
    LET form  == <<Header("Futures Lab Quiz")>>
        score == QuizScore(wv)
        excel == Download("Download Excel Workings",
                          <<wv.student_name, wv.student_id, Answers(wv)>>)
        pdf   == Download("Download Certificate",
                          <<wv.student_name, wv.student_id, score>>)
    IN  IF ~wv.submit
        THEN Done(form, [submitted |-> FALSE])
        ELSE Done(form \o <<Success(score), excel>>
                       \o (IF Certified(score, wv.student_name, wv.student_id)
                           THEN <<pdf>> ELSE <<>>),
                  [submitted |-> TRUE, score |-> score])

-----------------------------------------------------------------------------
(* One execution of the script: the if/elif chain on the sidebar choice,   *)
(* with the widget values wv and the random draws z of this execution.     *)

Script(t, wv, z) ==
    CASE t = T1  -> FuturesBasics(wv)
      [] t = T3  -> MtmMarginCalls(wv)
      [] t = T4  -> TradingPnL(wv)
      [] t = T5  -> HedgingBuilder(wv)
      [] t = T6  -> OptimalHedgeRatio(wv)
      [] t = T7  -> BasisConvergence(wv)
      [] t = T8  -> BasisRisk(wv)
      [] t = T9  -> RollingFutures(wv)
      [] t = T10 -> MatchingSystem(wv)
      [] t = T11 -> RealWorldCases(wv)
      [] t = T12 -> AdvancedStrategies(wv, z)
      [] t = T13 -> Quiz(wv)

\* The standard-normal draws, as multiples of the standard deviation.
NoiseDraws == {-1, 1}

IsRolling(t, wv) == t = T12 /\ wv.sub = "Rolling Hedge Over Time"

\* The draws an execution may get from the unseeded generator.
Draws(t, wv) ==
    IF IsRolling(t, wv) THEN [1..wv.periods -> NoiseDraws] ELSE {<<>>}

-----------------------------------------------------------------------------
(* State machine: an interaction sets one widget, then the script reruns.  *)

NoSnap == [taken |-> FALSE]

\* The script is about to run on the current widget values: nothing of the
\* new run has been emitted yet.
Pending == [status |-> "running", ui |-> <<>>, env |-> [none |-> TRUE]]

\* The app is opened: first module, default widget values, first run due.
Init ==
    /\ topic = T1
    /\ w = Defaults(T1, FirstSub(T1))
    /\ out = Pending
    /\ snap = NoSnap

\* A rerun that leaves the elements of the previous run in place.
RunKeepingElements(t, wv) ==
    /\ out.status # "running"
    /\ topic' = t
    /\ w' = wv
    /\ out' = [Pending EXCEPT !.ui = out.ui]
    /\ UNCHANGED snap

\* An interaction is accepted once the previous run is complete; it stores
\* the widget values and triggers a rerun of the script, which starts from
\* an empty list of elements.
Run(t, wv) ==
    /\ out.status # "running"
    /\ topic' = t
    /\ w' = wv
    /\ out' = Pending
    /\ UNCHANGED snap

\* History (no part of the program): once a run has been recorded in snap,
\* note whether a run on another module or other widget values followed.
Noted ==
    IF snap.taken /\ (topic # snap.topic \/ w # snap.w)
    THEN [snap EXCEPT !.away = TRUE]
    ELSE snap

\* The script runs top to bottom on the current widget values; each st.*
\* call appends an element to the list of this run.
Execute ==
    /\ out.status = "running"
    /\ \E z \in Draws(topic, w) :
          LET r == Script(topic, w, z)
          IN  out' = [r EXCEPT !.ui = out.ui \o r.ui]
    /\ snap' = Noted
    /\ UNCHANGED <<topic, w>>

\* Which panels render the widget behind each field of w.
Shows(field) ==
    CASE field = "entry" ->
            \/ topic \in {T1, T3, T4}
            \/ topic = T12 /\ w.sub \in {"Directional Trade", "Strategy Comparison"}
      [] field \in {"contracts"} -> topic \in {T3, T4}
      [] field \in {"position", "init_margin", "maint_margin"} -> topic = T3
      [] field = "V" ->
            topic \in {T5, T6, T7} \/ (topic = T11 /\ w.sub = "Equity Portfolio Hedge")
      [] field = "beta" -> topic \in {T5, T6, T7}
      [] field = "F" ->
            topic \in {T5, T6} \/ (topic = T11 /\ w.sub = "Equity Portfolio Hedge")
      [] field = "hedge_type" -> topic = T5
      [] field \in {"spot", "futures"} ->
            topic = T7 \/ (topic = T11 /\ w.sub = "Arbitrage Desk")
      [] field \in {"market_type", "days"} -> topic = T7
      [] field = "corr" -> topic = T8 \/ (topic = T12 /\ w.sub = "Cross Hedging")
      [] field \in {"near", "far"} ->
            \/ topic = T9
            \/ topic = T11 /\ w.sub = "Calendar Spread Trading Desk"
            \/ topic = T12 /\ w.sub = "Calendar Spread"
      [] field \in {"buyers", "sellers"} -> topic = T10
      [] field \in {"fuel_cost", "hedge_pct"} ->
            topic = T11 /\ w.sub = "Airline Fuel Hedge"
      [] field = "exposure" ->
            \/ topic = T11 /\ w.sub = "Exporter Currency Hedge"
            \/ topic = T12 /\ w.sub \in {"Cross Hedging", "Rolling Hedge Over Time"}
      [] field \in {"output", "price"} ->
            topic = T11 /\ w.sub = "Commodity Producer Hedge"
      [] field = "r_pct" -> topic = T11 /\ w.sub = "Arbitrage Desk"
      [] field = "periods" -> topic = T12 /\ w.sub = "Rolling Hedge Over Time"
      [] field = "quiz" -> topic = T13

\* Sidebar radio: another module is shown, with its widgets at their defaults.
SelectTopic == \E t \in Topics : Run(t, Defaults(t, FirstSub(t)))

\* The selectbox of modules 11 and 12.
SelectCase ==
    /\ topic = T11
    /\ \E c \in Cases : Run(topic, Defaults(topic, c))

SelectStrat ==
    /\ topic = T12
    /\ \E c \in Strats : Run(topic, Defaults(topic, c))

\* A rerun with no widget changed (Streamlit's "Rerun"); a button that was
\* clicked for the previous run is not clicked for this one.
Rerun == Run(topic, [w EXCEPT !.submit = FALSE])

SetEntry ==
    /\ Shows("entry")
    /\ \E e \in EntryPrices : Run(topic, [w EXCEPT !.entry = e])

SetContracts ==
    /\ Shows("contracts")
    /\ \E c \in ContractCounts : Run(topic, [w EXCEPT !.contracts = c])

SetPosition ==
    /\ Shows("position")
    /\ \E p \in Positions : Run(topic, [w EXCEPT !.position = p])

SetInitMargin ==
    /\ Shows("init_margin")
    /\ \E m \in InitMargins : Run(topic, [w EXCEPT !.init_margin = m])

SetMaintMargin ==
    /\ Shows("maint_margin")
    /\ \E m \in MaintMargins : Run(topic, [w EXCEPT !.maint_margin = m])

SetPortfolioValue ==
    /\ Shows("V")
    /\ \E v \in PortfolioValues : Run(topic, [w EXCEPT !.V = v])

SetBeta ==
    /\ Shows("beta")
    /\ \E b \in Betas : Run(topic, [w EXCEPT !.beta = b])

SetFuturesPrice ==
    /\ Shows("F")
    /\ \E f \in FuturesPrices : Run(topic, [w EXCEPT !.F = f])

SetHedgeType ==
    /\ Shows("hedge_type")
    /\ \E h \in HedgeTypes : Run(topic, [w EXCEPT !.hedge_type = h])

SetSpot ==
    /\ Shows("spot")
    /\ \E p \in SpotPrices : Run(topic, [w EXCEPT !.spot = p])

SetFutures ==
    /\ Shows("futures")
    /\ \E f \in FuturesPrices : Run(topic, [w EXCEPT !.futures = f])

SetMarketType ==
    /\ Shows("market_type")
    /\ \E m \in MarketTypes : Run(topic, [w EXCEPT !.market_type = m])

SetDays ==
    /\ Shows("days")
    /\ \E d \in DaysToExpiry : Run(topic, [w EXCEPT !.days = d])

SetCorr ==
    /\ Shows("corr")
    /\ \E c \in Correlations : Run(topic, [w EXCEPT !.corr = c])

SetNear ==
    /\ Shows("near")
    /\ \E p \in NearPrices : Run(topic, [w EXCEPT !.near = p])

SetFar ==
    /\ Shows("far")
    /\ \E p \in FarPrices : Run(topic, [w EXCEPT !.far = p])

SetBuyers ==
    /\ Shows("buyers")
    /\ \E n \in OrderCounts : Run(topic, [w EXCEPT !.buyers = n])

SetSellers ==
    /\ Shows("sellers")
    /\ \E n \in OrderCounts : Run(topic, [w EXCEPT !.sellers = n])

SetFuelCost ==
    /\ Shows("fuel_cost")
    /\ \E c \in FuelCosts : Run(topic, [w EXCEPT !.fuel_cost = c])

SetHedgePct ==
    /\ Shows("hedge_pct")
    /\ \E h \in HedgePcts : Run(topic, [w EXCEPT !.hedge_pct = h])

SetExposure ==
    /\ Shows("exposure")
    /\ \E e \in Exposures : Run(topic, [w EXCEPT !.exposure = e])

SetOutput ==
    /\ Shows("output")
    /\ \E q \in OutputQtys : Run(topic, [w EXCEPT !.output = q])

SetPrice ==
    /\ Shows("price")
    /\ \E p \in CommodityPrices : Run(topic, [w EXCEPT !.price = p])

SetInterest ==
    /\ Shows("r_pct")
    /\ \E r \in InterestPcts : Run(topic, [w EXCEPT !.r_pct = r])

SetPeriods ==
    /\ Shows("periods")
    /\ \E n \in PeriodCounts : Run(topic, [w EXCEPT !.periods = n])

Next ==
    \/ Execute
    \/ SelectTopic
    \/ SelectCase
    \/ SelectStrat
    \/ Rerun
    \/ SetEntry
    \/ SetContracts
    \/ SetPosition
    \/ SetInitMargin
    \/ SetMaintMargin
    \/ SetPortfolioValue
    \/ SetBeta
    \/ SetFuturesPrice
    \/ SetHedgeType
    \/ SetSpot
    \/ SetFutures
    \/ SetMarketType
    \/ SetDays
    \/ SetCorr
    \/ SetNear
    \/ SetFar
    \/ SetBuyers
    \/ SetSellers
    \/ SetFuelCost
    \/ SetHedgePct
    \/ SetExposure
    \/ SetOutput
    \/ SetPrice
    \/ SetInterest
    \/ SetPeriods

Spec == Init /\ [][Next]_vars

-----------------------------------------------------------------------------
(* The same program watched by an observer who records one run: the run of *)
(* some panel on its default widget values.  Whatever is done afterwards,  *)
(* a later run on the recorded inputs can be compared with the record.     *)

Observe ==
    /\ ~snap.taken
    /\ out.status # "running"
    /\ w = Defaults(topic, w.sub)
    /\ snap' = [taken |-> TRUE, away |-> FALSE,
                topic |-> topic, w |-> w, out |-> out]
    /\ UNCHANGED <<topic, w, out>>

NextObs ==
    \/ Next
    \/ Observe

SpecObs == Init /\ [][NextObs]_vars

-----------------------------------------------------------------------------
(* The app with the quiz being taken: the student answers, fills in the    *)
(* details, submits and downloads.  Every interaction other than the click *)
(* on "Submit Quiz" reruns the script with the button unclicked.           *)

SetRadioAnswer ==
    /\ Shows("quiz")
    /\ \E q \in RadioQuestions : \E a \in RadioOptions(q) :
          Run(topic, [w EXCEPT ![q] = a, !.submit = FALSE])

SetNumberAnswer ==
    /\ Shows("quiz")
    /\ \E q \in NumberQuestions : \E a \in NumberAnswers(q) :
          Run(topic, [w EXCEPT ![q] = a, !.submit = FALSE])

SetStudentName ==
    /\ Shows("quiz")
    /\ \E s \in StudentNames :
          Run(topic, [w EXCEPT !.student_name = s, !.submit = FALSE])

SetStudentId ==
    /\ Shows("quiz")
    /\ \E s \in StudentIds :
          Run(topic, [w EXCEPT !.student_id = s, !.submit = FALSE])

\* The click on "Submit Quiz": st.button returns True in the run it triggers.
SubmitQuiz ==
    /\ Shows("quiz")
    /\ Run(topic, [w EXCEPT !.submit = TRUE])

\* The download buttons the last run has put on the page.
Offered(label) ==
    \E i \in 1..Len(out.ui) :
        out.ui[i].kind = "download" /\ out.ui[i].label = label

\* A click on a download button hands over the file and reruns the script.
DownloadExcel ==
    /\ Offered("Download Excel Workings")
    /\ Run(topic, [w EXCEPT !.submit = FALSE])

DownloadCertificate ==
    /\ Offered("Download Certificate")
    /\ Run(topic, [w EXCEPT !.submit = FALSE])

NextQuiz ==
    \/ Next
    \/ SetRadioAnswer
    \/ SetNumberAnswer
    \/ SetStudentName
    \/ SetStudentId
    \/ SubmitQuiz
    \/ DownloadExcel
    \/ DownloadCertificate

SpecQuiz == Init /\ [][NextQuiz]_vars

-----------------------------------------------------------------------------
(* The P&L series of the Hedging Strategy Builder as a function of its     *)
(* scenario.  The panel fixes the scenario to np.linspace(-0.1, 0.1, 20);  *)
(* here the same formulas run on any evenly spaced scenario.               *)

\* The largest point count tried besides those of the panels.
MaxPoints == 5

PointCounts == (2..MaxPoints) \cup {8, 10, 20}

\* (low, high) of a scenario.
ScenarioBounds ==
    {<<Rat(-1, 10), Rat(1, 10)>>, <<Rat(-5, 100), Rat(5, 100)>>,
     <<Rat(-1, 10), Rat(2, 10)>>}

InitPnL ==
    /\ topic = T5
    /\ w \in [V : PortfolioValues, beta : Betas, F : FuturesPrices \ {0},
              hedge_type : HedgeTypes, bounds : ScenarioBounds,
              points : PointCounts]
    /\ out = Pending
    /\ snap = NoSnap

ComputePnLSeries ==
    /\ out.status = "running"
    /\ LET optimal_contracts == OptimalContracts(w.beta, w.V, w.F, Size)
           contracts == HedgeContracts(w.hedge_type, optimal_contracts)
           moves     == Linspace(w.bounds[1], w.bounds[2], w.points)
           portfolio == PortfolioPnL(w.V, w.beta, moves)
           futures   == FuturesPnL(contracts, Size, w.F, moves)
           net       == NetPnL(portfolio, futures)
       IN  out' = Done(<<Table("payoff", <<moves, portfolio, futures, net>>)>>,
                       [optimal_contracts |-> optimal_contracts,
                        contracts |-> contracts, moves |-> moves,
                        portfolio |-> portfolio, futures |-> futures,
                        net |-> net])
    /\ UNCHANGED <<topic, w, snap>>

SpecPnL == InitPnL /\ [][ComputePnLSeries]_vars

-----------------------------------------------------------------------------
(* Properties.                                                             *)

\* The latest run is complete and went through.
Completed == out.status = "ok"

OnHedgingBuilder == topic = T5 /\ Completed

OnOptimalHedgeRatio == topic = T6 /\ Completed

OnBasisConvergence == topic = T7 /\ Completed

OnEquityHedge == topic = T11 /\ w.sub = "Equity Portfolio Hedge" /\ Completed

\* n * F * multiplier, the notional the contracts cover.
Covered(n, F) == RMul(RMul(n, R(F)), R(Size))

\* C1: the optimal contract count is (beta * V) / (F * 50): multiplied back
\* by F * 50 it gives beta * V, in the Hedging Strategy Builder and the
\* Optimal Hedge Ratio panel, and V itself in the Equity Portfolio Hedge
\* case (beta = 1) and whenever beta = 1.
C1_OptimalContracts ==
    /\ OnHedgingBuilder =>
          /\ Covered(out.env.optimal_contracts, w.F) = RMul(w.beta, R(w.V))
          /\ w.beta = R(1) => Covered(out.env.optimal_contracts, w.F) = R(w.V)
    /\ OnOptimalHedgeRatio =>
          /\ Covered(out.env.N, w.F) = RMul(w.beta, R(w.V))
          /\ w.beta = R(1) => Covered(out.env.N, w.F) = R(w.V)
    /\ OnEquityHedge => Covered(out.env.N, w.F) = R(w.V)

\* C1 happens: 5,000,000 at beta 1.5 against futures at 22000 needs
\* 7,500,000 / 1,100,000 = 75/11 contracts.
C1_Witness ==
    /\ OnHedgingBuilder
    /\ w.V = 5000000 /\ w.F = 22000 /\ w.beta = Rat(3, 2)
    /\ out.env.optimal_contracts = Rat(75, 11)

\* Every row of a P&L series satisfies P(unhedged, futures, net).
FullyHedged(env) ==
    \A i \in 1..Len(env.moves) :
        /\ RLe(RAbs(env.net[i]), RAbs(env.portfolio[i]))
        /\ env.net[i] = R(0)
        /\ env.net[i] = RAdd(env.portfolio[i], env.futures[i])

\* C2: with the optimal contract count, |netPnL| <= |unhedgedPnL| for every
\* market move, and the net P&L is 0: in the Hedging Strategy Builder with
\* 'Optimal Hedge', in Basis & Convergence and in the Equity Portfolio Hedge.
C2_OptimalHedgeFlat ==
    /\ (OnHedgingBuilder /\ w.hedge_type = "Optimal Hedge") => FullyHedged(out.env)
    /\ OnBasisConvergence => FullyHedged(out.env)
    /\ OnEquityHedge => FullyHedged(out.env)

\* C2 happens: an optimal hedge of a portfolio that loses 500,000 unhedged
\* on the -10% move.
C2_Witness ==
    /\ OnHedgingBuilder /\ w.hedge_type = "Optimal Hedge"
    /\ out.env.moves[1] = Rat(-1, 10)
    /\ out.env.portfolio[1] = R(-500000)
    /\ out.env.futures[1] = R(500000)
    /\ out.env.net[1] = R(0)

\* The elements that show a result of the calculation.
ResultKinds == {"metric", "write", "chart", "table"}

\* The run has ended (with or without an exception).
Ended == out.status # "running"

\* C3: a non-positive futures price is rejected before any calculation and
\* nothing is emitted for it: no optimal-contract value, chart or table, in
\* the Hedging Strategy Builder and in Basis & Convergence.
C3_InvalidInputRejected ==
    /\ (topic = T5 /\ Ended /\ w.F <= 0) =>
          out.status # "ok" /\ Kinds(out) \cap ResultKinds = {}
    /\ (topic = T7 /\ Ended /\ w.futures <= 0) =>
          out.status # "ok" /\ Kinds(out) \cap ResultKinds = {}

\* C4: the contracts used are the optimal count times 1.0 (optimal), 0.5
\* (under) and 1.5 (over); under = 0.5 * and over = 1.5 * the count the
\* optimal mode uses for the same inputs.
C4_HedgeRatios ==
    OnHedgingBuilder =>
        LET opt  == out.env.optimal_contracts
            used == out.env.contracts
            full == HedgeContracts("Optimal Hedge", opt)
        IN  /\ full = opt
            /\ w.hedge_type = "Optimal Hedge" => used = opt
            /\ w.hedge_type = "Under Hedge" =>
                  RAdd(used, used) = opt /\ used = RMul(Rat(1, 2), full)
            /\ w.hedge_type = "Over Hedge" =>
                  RAdd(used, used) = RAdd(opt, RAdd(opt, opt))
                  /\ used = RMul(Rat(3, 2), full)

\* C4 happens: the over hedge of 5,000,000 at 22000 uses 75/11 = 6.81...
\* contracts, the optimal count being 50/11 = 4.54...
C4_Witness ==
    /\ OnHedgingBuilder /\ w.hedge_type = "Over Hedge"
    /\ out.env.optimal_contracts = Rat(50, 11)
    /\ out.env.contracts = Rat(75, 11)

OnBasisRisk == topic = T8 /\ Completed

\* C7: hedge effectiveness is correlation * 100: 0 at correlation 0, 100
\* at correlation 1 and strictly increasing: the value shown lies strictly
\* above that of every smaller correlation and below that of every larger.
C7_Effectiveness ==
    OnBasisRisk =>
        LET eff == out.env.effectiveness
        IN  /\ out.ui[2] = Metric("Effectiveness %", eff)
            /\ RDiv(eff, R(100)) = w.corr
            /\ w.corr = R(0) => eff = R(0)
            /\ w.corr = R(1) => eff = R(100)
            /\ \A c \in Correlations :
                  /\ RLt(c, w.corr) => RLt(Effectiveness(c), eff)
                  /\ RLt(w.corr, c) => RLt(eff, Effectiveness(c))

\* C7 happens: correlation 1.0 shows 100.
C7_Witness ==
    /\ OnBasisRisk
    /\ w.corr = R(1)
    /\ out.env.effectiveness = R(100)

OnTradingPnL == topic = T4 /\ Completed

OnMtm == topic = T3 /\ Completed

\* C9: the long P&L at price p is (p - entry) * contracts * 50 (500,000 for
\* entry 22000, 5 contracts, p = 24000), the short P&L is its negation, so
\* long + short = 0 at every price; the MTM panel computes the same P&L.
C9_LongShortPnL ==
    /\ OnTradingPnL =>
          \A i \in 1..Len(out.env.prices) :
              LET p == out.env.prices[i]
              IN  /\ out.env.long[i] =
                        RMul(RSub(p, R(w.entry)), R(w.contracts * 50))
                  /\ out.env.short[i] = RNeg(out.env.long[i])
                  /\ RAdd(out.env.long[i], out.env.short[i]) = R(0)
                  /\ (w.entry = 22000 /\ w.contracts = 5 /\ p = R(24000)) =>
                        out.env.long[i] = R(500000)
    /\ OnMtm =>
          /\ out.env.prices = PriceGrid(w.entry)
          /\ w.position = "Long" =>
                out.env.pnl = LongPnL(out.env.prices, w.entry, w.contracts, 50)
          /\ w.position = "Short" =>
                out.env.pnl = ShortPnL(out.env.prices, w.entry, w.contracts, 50)

\* C9 happens: entry 22000, 5 contracts, settlement at 24000.
C9_Witness ==
    /\ OnTradingPnL
    /\ w.entry = 22000 /\ w.contracts = 5
    /\ out.env.prices[8] = R(24000)
    /\ out.env.long[8] = R(500000)
    /\ out.env.short[8] = R(-500000)

\* C10: in the Hedging Strategy Builder the net hedged P&L is half the
\* unhedged P&L under 'Under Hedge' and minus half of it under 'Over
\* Hedge', at every market move; its size is half the unhedged size in both.
C10_UnderOverNet ==
    OnHedgingBuilder =>
        \A i \in 1..Len(out.env.moves) :
            LET unhedged == out.env.portfolio[i]
                net      == out.env.net[i]
                half     == RMul(Rat(1, 2), unhedged)
            IN  /\ unhedged = RMul(RMul(R(w.V), w.beta), out.env.moves[i])
                /\ w.hedge_type = "Under Hedge" =>
                      net = half /\ RAbs(net) = RMul(Rat(1, 2), RAbs(unhedged))
                /\ w.hedge_type = "Over Hedge" =>
                      net = RNeg(half) /\ RAbs(net) = RMul(Rat(1, 2), RAbs(unhedged))

\* C10 happens: over hedged, the portfolio that loses 500,000 unhedged at
\* -10% gains 250,000.
C10_Witness ==
    /\ OnHedgingBuilder /\ w.hedge_type = "Over Hedge"
    /\ out.env.portfolio[1] = R(-500000)
    /\ out.env.net[1] = R(250000)

\* The run on screen is complete and has the inputs of the recorded run.
SameInputs ==
    /\ snap.taken
    /\ Ended
    /\ topic = snap.topic
    /\ w = snap.w

RollingRepeats ==
    (SameInputs /\ IsRolling(topic, w)) => out = snap.out

\* C12: in the MTM panel the margin balance of every row is the initial
\* margin plus the P&L from the entry price to the row's price (nothing is
\* carried from row to row); the row is a 'MARGIN CALL' exactly when the
\* balance is strictly below the maintenance margin (equal is 'OK'); so a
\* Long margin call at a price means one at every lower grid price, a Short
\* one at every higher grid price.
C12_MarginCalls ==
    OnMtm =>
        LET n    == Len(out.env.prices)
            sign == IF w.position = "Long" THEN 1 ELSE -1
            Call(i) == out.env.status[i] = "MARGIN CALL"
        IN  /\ n = 8
            /\ Len(out.env.balances) = n /\ Len(out.env.status) = n
            /\ \A i \in 1..n :
                  /\ out.env.balances[i] =
                        RAdd(R(w.init_margin),
                             RMul(RSub(out.env.prices[i], R(w.entry)),
                                  R(sign * w.contracts * 50)))
                  /\ out.env.status[i] \in {"MARGIN CALL", "OK"}
                  /\ Call(i) <=> RLt(out.env.balances[i], R(w.maint_margin))
                  /\ out.env.balances[i] = R(w.maint_margin) =>
                        out.env.status[i] = "OK"
            /\ \A i, j \in 1..n :
                  /\ (w.position = "Long" /\ Call(i)
                        /\ RLt(out.env.prices[j], out.env.prices[i])) => Call(j)
                  /\ (w.position = "Short" /\ Call(i)
                        /\ RLt(out.env.prices[i], out.env.prices[j])) => Call(j)
            /\ out.ui[3] = Table("MTM", <<out.env.prices, out.env.balances,
                                          out.env.status>>)

\* C12 happens: Long 5 contracts from 22000 with margins 150,000/100,000:
\* the four prices below 22000 are margin calls (balance 78,571.4 at the
\* fourth), the four above are not.
C12_Witness ==
    /\ OnMtm
    /\ w.position = "Long" /\ w.entry = 22000 /\ w.contracts = 5
    /\ w.init_margin = 150000 /\ w.maint_margin = 100000
    /\ out.env.balances[4] = Rat(550000, 7)
    /\ out.env.status[4] = "MARGIN CALL"
    /\ out.env.status[5] = "OK"

\* The boundary of C12 is reached too: a balance equal to the maintenance
\* margin (1 contract, margins 150,000/50,000, price entry - 2000).
BalanceAtMaintenance ==
    /\ OnMtm
    /\ \E i \in 1..Len(out.env.balances) :
          /\ out.env.balances[i] = R(w.maint_margin)
          /\ out.env.status[i] = "OK"

OnQuiz == topic = T13 /\ Completed

\* The scores a run has put on the page.
ScoresShown ==
    {out.ui[i].data[1][1] : i \in {k \in 1..Len(out.ui) : out.ui[k].kind = "success"}}

\* The questions of the quiz that the current answers get right.
RightAnswers ==
    {q \in 1..10 :
        CASE q = 1  -> w.q1 = "Short"
          [] q = 2  -> w.q2 = "Zero"
          [] q = 3  -> RLt(R(109), w.q3) /\ RLt(w.q3, R(111))
          [] q = 4  -> RLt(R(499), w.q4) /\ RLt(w.q4, R(501))
          [] q = 5  -> RLt(Rat(1, 2), w.q5) /\ RLt(w.q5, Rat(3, 2))
          [] q = 6  -> w.q6 = "Credit risk"
          [] q = 7  -> w.q7 = "Contango"
          [] q = 8  -> w.q8 = "High"
          [] q = 9  -> w.q9 = "Close & reopen"
          [] q = 10 -> RLt(R(199), w.q10) /\ RLt(w.q10, R(201))}

\* C11: the run that "Submit Quiz" triggers shows one score, the number of
\* the ten questions answered correctly (between 0 and 10), and offers the
\* certificate exactly when that score is at least 5 and the student name
\* and the student ID are both non-empty; a run without a submit shows no
\* score and offers no certificate.
C11_ScoreAndCertificate ==
    Ended =>
        IF topic = T13 /\ w.submit
        THEN /\ Completed
             /\ ScoresShown = {Cardinality(RightAnswers)}
             /\ out.env.score = Cardinality(RightAnswers)
             /\ out.env.score \in 0..10
             /\ Offered("Download Certificate") <=>
                   /\ Cardinality(RightAnswers) >= 5
                   /\ w.student_name # ""
                   /\ w.student_id # ""
        ELSE /\ ScoresShown = {}
             /\ ~Offered("Download Certificate")

\* C11 happens: submitted with exactly five right answers, a name and an
\* ID: the score 5 is shown and the certificate is offered.
C11_Witness ==
    /\ OnQuiz
    /\ w.submit
    /\ w.student_name = "Asha Rao" /\ w.student_id = "S01"
    /\ Cardinality(RightAnswers) = 5
    /\ ScoresShown = {5}
    /\ Offered("Download Certificate")

\* C11's other cases are reached as well: a submit with four right answers
\* and both details (no certificate), and one with all ten right.
FailedQuiz ==
    /\ OnQuiz /\ w.submit
    /\ w.student_name # "" /\ w.student_id # ""
    /\ ScoresShown = {4}
    /\ ~Offered("Download Certificate")

FullMarks == OnQuiz /\ w.submit /\ ScoresShown = {10}

NoMarks == OnQuiz /\ w.submit /\ ScoresShown = {0}

=============================================================================
